---------------------------- MODULE Spec2Model ----------------------------
(***************************************************************************)
(* Model of utils/web.py of fansly-downloader-ng: URL decomposition,       *)
(* query-string extraction, user-agent selection and the two remote        *)
(* metadata fetchers.                                                      *)
(*                                                                         *)
(* A Python str is a sequence of one-character strings.  Positions are     *)
(* 1-based and 0 stands for Python's "not found" (-1).  A Python object    *)
(* whose identity matters is a record [id, val]: `is` compares id.         *)
(***************************************************************************)
EXTENDS Integers, Sequences, FiniteSets, TLC

VARIABLES pc, call, ret, log

vars == <<pc, call, ret, log>>

(***************************************************************************)
(* Bounds of the explored inputs.                                          *)
(***************************************************************************)
MaxSegs == 3
MaxPairs == 2
MaxCandidates == 2

(***************************************************************************)
(* str primitives                                                          *)
(***************************************************************************)
Min(S) == CHOOSE x \in S : \A y \in S : x <= y

Max(S) == CHOOSE x \in S : \A y \in S : x >= y

\* s.find(sub, start): least position >= start where sub occurs, 0 if none
Find(s, sub, start) ==
    LET hits == {i \in start..(Len(s) - Len(sub) + 1) :
                    SubSeq(s, i, i + Len(sub) - 1) = sub}
    IN IF hits = {} THEN 0 ELSE Min(hits)

\* s.rfind(sub): greatest position where sub occurs, 0 if none
RFind(s, sub) ==
    LET hits == {i \in 1..(Len(s) - Len(sub) + 1) :
                    SubSeq(s, i, i + Len(sub) - 1) = sub}
    IN IF hits = {} THEN 0 ELSE Max(hits)

\* sub in s
Contains(sub, s) == Find(s, sub, 1) # 0

\* s[i:] with a 1-based i
From(s, i) == SubSeq(s, i, Len(s))

\* s[:i] exclusive of the 1-based position i
Upto(s, i) == SubSeq(s, 1, i - 1)

\* s.split(sep, 1): one or two pieces
SplitOnce(s, sep) ==
    LET i == Find(s, sep, 1)
    IN IF i = 0 THEN <<s>> ELSE <<Upto(s, i), From(s, i + Len(sep))>>

\* s.rsplit(sep, 1): one or two pieces, cut at the last sep
RSplitOnce(s, sep) ==
    LET i == RFind(s, sep)
    IN IF i = 0 THEN <<s>> ELSE <<Upto(s, i), From(s, i + Len(sep))>>

\* s.split(sep): every piece
RECURSIVE Split(_, _)
Split(s, sep) ==
    LET i == Find(s, sep, 1)
    IN IF i = 0 THEN <<s>>
       ELSE <<Upto(s, i)>> \o Split(From(s, i + Len(sep)), sep)

\* s.replace(a, b) for one-character a
Replace(s, a, b) == [i \in 1..Len(s) |-> IF s[i] = a THEN b ELSE s[i]]

LowerCase ==
    <<"a", "b", "c", "d", "e", "f", "g", "h", "i", "j", "k", "l", "m",
      "n", "o", "p", "q", "r", "s", "t", "u", "v", "w", "x", "y", "z">>

UpperCase ==
    <<"A", "B", "C", "D", "E", "F", "G", "H", "I", "J", "K", "L", "M",
      "N", "O", "P", "Q", "R", "S", "T", "U", "V", "W", "X", "Y", "Z">>

Digits == {"0", "1", "2", "3", "4", "5", "6", "7", "8", "9"}

Range(f) == {f[i] : i \in DOMAIN f}

IsAlpha(c) == c \in Range(LowerCase) \cup Range(UpperCase)

LowerChar(c) ==
    IF c \in Range(UpperCase)
    THEN LowerCase[CHOOSE i \in DOMAIN UpperCase : UpperCase[i] = c]
    ELSE c

\* s.lower()
Lower(s) == [i \in 1..Len(s) |-> LowerChar(s[i])]

(***************************************************************************)
(* urllib.parse.urlparse, as web.py calls it                               *)
(***************************************************************************)
\* urllib.parse.scheme_chars
scheme_chars == Range(LowerCase) \cup Range(UpperCase) \cup Digits \cup {"+", "-", "."}

\* urllib.parse.uses_params (the schemes whose last path segment carries
\* ;parameters), restricted to the schemes that matter here
uses_params ==
    {<<>>, <<"f", "t", "p">>, <<"h", "t", "t", "p">>,
     <<"h", "t", "t", "p", "s">>, <<"s", "f", "t", "p">>}

\* urlsplit step 1: a leading scheme, lower-cased, and the rest
SplitScheme(url) ==
    LET i == Find(url, <<":">>, 1)
    IN IF i > 1 /\ IsAlpha(url[1]) /\ \A k \in 1..(i - 1) : url[k] \in scheme_chars
       THEN [scheme |-> Lower(Upto(url, i)), rest |-> From(url, i + 1)]
       ELSE [scheme |-> <<>>, rest |-> url]

\* urllib.parse._splitnetloc(url, 2): the authority ends at the first of / ? #
SplitNetloc(url) ==
    IF Len(url) >= 2 /\ SubSeq(url, 1, 2) = <<"/", "/">>
    THEN LET ends == {i \in 3..Len(url) : url[i] \in {"/", "?", "#"}}
             delim == IF ends = {} THEN Len(url) + 1 ELSE Min(ends)
         IN [netloc |-> SubSeq(url, 3, delim - 1), rest |-> From(url, delim)]
    ELSE [netloc |-> <<>>, rest |-> url]

\* urllib.parse._splitparams: ;parameters of the last path segment
SplitParams(path) ==
    LET slash == RFind(path, <<"/">>)
        i == IF slash # 0 THEN Find(path, <<";">>, slash)
             ELSE Find(path, <<";">>, 1)
    IN IF i = 0 THEN [path |-> path, params |-> <<>>]
       ELSE [path |-> Upto(path, i), params |-> From(path, i + 1)]

urlparse(url) ==
    LET s == SplitScheme(url)
        n == SplitNetloc(s.rest)
        f == SplitOnce(n.rest, <<"#">>)
        q == SplitOnce(f[1], <<"?">>)
        p == IF s.scheme \in uses_params /\ Contains(<<";">>, q[1])
             THEN SplitParams(q[1])
             ELSE [path |-> q[1], params |-> <<>>]
    IN [scheme |-> s.scheme,
        netloc |-> n.netloc,
        path |-> p.path,
        params |-> p.params,
        query |-> IF Len(q) = 2 THEN q[2] ELSE <<>>,
        fragment |-> IF Len(f) = 2 THEN f[2] ELSE <<>>]

(***************************************************************************)
(* URL Decomposer                                                          *)
(***************************************************************************)
get_file_name_from_url(url) ==
    LET parsed_url == urlparse(url)
        pieces == Split(parsed_url.path, <<"/">>)
    IN pieces[Len(pieces)]

\* split_url with the query string left on file_url
split_url_keeps_query(url) ==
    LET parsed_url == urlparse(url)
        file_url == parsed_url.scheme \o <<":", "/", "/">> \o parsed_url.netloc
                        \o parsed_url.path
                        \o (IF parsed_url.query = <<>> THEN <<>>
                            ELSE <<"?">> \o parsed_url.query)
        base_url == RSplitOnce(file_url, <<"/">>)[1]
    IN [base_url |-> base_url, file_url |-> file_url]

\* split_url cutting base_url at the first slash of the path, not the last
split_url_cuts_first(url) ==
    LET parsed_url == urlparse(url)
        file_url == parsed_url.scheme \o <<":", "/", "/">> \o parsed_url.netloc
                        \o parsed_url.path
        base_url == parsed_url.scheme \o <<":", "/", "/">> \o parsed_url.netloc
    IN [base_url |-> base_url, file_url |-> file_url]

split_url(url) ==
    LET parsed_url == urlparse(url)
        file_url == parsed_url.scheme \o <<":", "/", "/">> \o parsed_url.netloc
                        \o parsed_url.path
        base_url == RSplitOnce(file_url, <<"/">>)[1]
    IN [base_url |-> base_url, file_url |-> file_url]

(***************************************************************************)
(* Query Extractor                                                         *)
(***************************************************************************)
None == [id |-> "None", val |-> <<>>]

\* urllib.parse.unquote after replace('+', ' '), on text without %-escapes
Unquote(s) == Replace(s, "+", " ")

\* urllib.parse.parse_qsl(qs) with keep_blank_values and strict_parsing off:
\* the pieces between "&", each split at its first "="; an empty piece, a
\* piece without "=" and a piece with an empty value are skipped
RECURSIVE ParsePieces(_)
ParsePieces(pieces) ==
    IF pieces = <<>> THEN <<>>
    ELSE LET nv == SplitOnce(pieces[1], <<"=">>)
             rest == ParsePieces(Tail(pieces))
         IN IF pieces[1] = <<>> \/ Len(nv) # 2 THEN rest
            ELSE IF Len(nv[2]) > 0
                 THEN <<[name |-> Unquote(nv[1]), value |-> Unquote(nv[2])]>> \o rest
                 ELSE rest

parse_qsl(qs) == IF qs = <<>> THEN <<>> ELSE ParsePieces(Split(qs, <<"&">>))

RECURSIVE ValuesOf(_, _)
ValuesOf(pairs, name) ==
    IF pairs = <<>> THEN <<>>
    ELSE (IF pairs[1].name = name THEN <<pairs[1].value>> ELSE <<>>)
            \o ValuesOf(Tail(pairs), name)

\* urllib.parse.parse_qs(qs): each name mapped to its values in order
parse_qs(qs) ==
    LET pairs == parse_qsl(qs)
    IN [name \in {pairs[i].name : i \in DOMAIN pairs} |-> ValuesOf(pairs, name)]

\* get_qs_value returning the last value of the key
get_qs_value_last(url, key, default) ==
    LET parsed_url == urlparse(url)
        qs == parsed_url.query
        parsed_qs == parse_qs(qs)
        result == IF key \in DOMAIN parsed_qs
                  THEN [id |-> "list", val |-> parsed_qs[key]]
                  ELSE default
    IN IF result.id = default.id THEN result
       ELSE IF Len(result.val) = 0 THEN None
       ELSE [id |-> "str", val |-> result.val[Len(result.val)]]

get_qs_value(url, key, default) ==
    LET parsed_url == urlparse(url)
        qs == parsed_url.query
        parsed_qs == parse_qs(qs)
        result == IF key \in DOMAIN parsed_qs
                  THEN [id |-> "list", val |-> parsed_qs[key]]
                  ELSE default
    IN IF result.id = default.id THEN result
       ELSE IF Len(result.val) = 0 THEN None
       ELSE [id |-> "str", val |-> result.val[1]]

(***************************************************************************)
(* User-Agent Selector                                                     *)
(***************************************************************************)
S_Windows == <<"W", "i", "n", "d", "o", "w", "s">>

S_Macintosh == <<"M", "a", "c", "i", "n", "t", "o", "s", "h">>

S_Linux == <<"L", "i", "n", "u", "x">>

S_Darwin == <<"D", "a", "r", "w", "i", "n">>

S_Microsoft_Edge == <<"M", "i", "c", "r", "o", "s", "o", "f", "t", " ", "E", "d", "g", "e">>

S_Edg == <<"E", "d", "g">>

S_Windows_NT_ == <<"W", "i", "n", "d", "o", "w", "s", " ", "N", "T", " ">>

S_Mac_OS_X_ == <<"M", "a", "c", " ", "O", "S", " ", "X", " ">>

S_Linux_ == <<"L", "i", "n", "u", "x", " ">>

\* re.search(literal + "([class]+)", s): the leftmost place where the literal
\* is followed by a character of the class, and group(1), the longest run of
\* class characters from there
ReSearch(literal, class, s) ==
    LET n == Len(literal)
        hits == {i \in 1..(Len(s) - n) :
                    SubSeq(s, i, i + n - 1) = literal /\ s[i + n] \in class}
    IN IF hits = {} THEN [matched |-> FALSE, group1 |-> <<>>]
       ELSE LET start == Min(hits) + n
                stop == Max({e \in start..Len(s) :
                                \A k \in start..e : s[k] \in class})
            IN [matched |-> TRUE, group1 |-> SubSeq(s, start, stop)]

HandledOs == {S_Windows, S_Darwin, S_Linux}

\* the OS family marker looked for in a candidate
OsMarker(os_name) ==
    CASE os_name = S_Windows -> S_Windows
      [] os_name = S_Darwin -> S_Macintosh
      [] os_name = S_Linux -> S_Linux

\* match and the os_version taken from it, per branch
OsVersion(os_name, user_agent) ==
    CASE os_name = S_Windows ->
            ReSearch(S_Windows_NT_, Digits \cup {"."}, user_agent)
      [] os_name = S_Darwin ->
            LET match == ReSearch(S_Mac_OS_X_, Digits \cup {"_", "."}, user_agent)
            IN [matched |-> match.matched,
                group1 |-> Replace(match.group1, "_", ".")]
      [] os_name = S_Linux ->
            ReSearch(S_Linux_, Digits \cup {"."}, user_agent)

\* if match: ... if os_version in user_agent
VersionCheck(os_name, user_agent) ==
    LET match == OsVersion(os_name, user_agent)
    IN match.matched /\ Contains(match.group1, user_agent)

\* the loop of one OS branch from position i on: the position returned, an
\* exception (`in` on a candidate that is no str), or the end of the list
RECURSIVE Scan(_, _, _, _)
Scan(user_agents, based_on_browser, os_name, i) ==
    IF i > Len(user_agents) THEN [kind |-> "end", idx |-> 0]
    ELSE IF user_agents[i].id # "str" THEN [kind |-> "raise", idx |-> i]
    ELSE IF /\ Contains(based_on_browser, user_agents[i].val)
            /\ Contains(OsMarker(os_name), user_agents[i].val)
            /\ VersionCheck(os_name, user_agents[i].val)
         THEN [kind |-> "return", idx |-> i]
         ELSE Scan(user_agents, based_on_browser, os_name, i + 1)

\* the loop keeping the last matching candidate instead of returning the first
RECURSIVE ScanLast(_, _, _, _)
ScanLast(user_agents, based_on_browser, os_name, i) ==
    IF i > Len(user_agents) THEN [kind |-> "end", idx |-> 0]
    ELSE IF user_agents[i].id # "str" THEN [kind |-> "raise", idx |-> i]
    ELSE LET later == ScanLast(user_agents, based_on_browser, os_name, i + 1)
         IN IF later.kind # "end" THEN later
            ELSE IF /\ Contains(based_on_browser, user_agents[i].val)
                    /\ Contains(OsMarker(os_name), user_agents[i].val)
                    /\ VersionCheck(os_name, user_agents[i].val)
                 THEN [kind |-> "return", idx |-> i]
                 ELSE later

print_error == [level |-> "error",
                text |-> "Regexing user-agent from online source failed"]

print_warning(based_on_browser, os_name) ==
    [level |-> "warning", text |-> "Missing user-agent",
     browser |-> based_on_browser, os |-> os_name]

\* what a call of guess_user_agent leaves: whether it raised, the value
\* returned, the position of that value in user_agents (0 for default_ua)
\* and the messages printed
GuessOutcome(scan, user_agents, browser, default_ua, os_name) ==
    IF scan.kind = "return"
    THEN [raised |-> FALSE, val |-> user_agents[scan.idx], idx |-> scan.idx,
          log |-> <<>>]
    ELSE [raised |-> FALSE, val |-> default_ua, idx |-> 0,
          log |-> (IF scan.kind = "raise" THEN <<print_error>> ELSE <<>>)
                    \o <<print_warning(browser, os_name)>>]

\* guess_user_agent without its except clause: the exception leaves the call
guess_user_agent_no_except(user_agents, based_on_browser, default_ua, os_name) ==
    LET browser == IF based_on_browser = S_Microsoft_Edge THEN S_Edg
                   ELSE based_on_browser
        scan == IF os_name \in HandledOs THEN Scan(user_agents, browser, os_name, 1)
                ELSE [kind |-> "end", idx |-> 0]
    IN IF scan.kind = "raise"
       THEN [raised |-> TRUE, val |-> None, idx |-> 0, log |-> <<>>]
       ELSE GuessOutcome(scan, user_agents, browser, default_ua, os_name)

\* guess_user_agent with the loops keeping the last match
guess_user_agent_last(user_agents, based_on_browser, default_ua, os_name) ==
    LET browser == IF based_on_browser = S_Microsoft_Edge THEN S_Edg
                   ELSE based_on_browser
        scan == IF os_name \in HandledOs
                THEN ScanLast(user_agents, browser, os_name, 1)
                ELSE [kind |-> "end", idx |-> 0]
    IN GuessOutcome(scan, user_agents, browser, default_ua, os_name)

\* os_name is what platform.system() reports
guess_user_agent(user_agents, based_on_browser, default_ua, os_name) ==
    LET browser == IF based_on_browser = S_Microsoft_Edge THEN S_Edg
                   ELSE based_on_browser
        scan == IF os_name \in HandledOs THEN Scan(user_agents, browser, os_name, 1)
                ELSE [kind |-> "end", idx |-> 0]
    IN GuessOutcome(scan, user_agents, browser, default_ua, os_name)

(***************************************************************************)
(* Remote Metadata Fetchers.  What requests.get does is an input: it       *)
(* raises, or it returns a response with a status code and a body that     *)
(* is or is not a JSON document.                                           *)
(***************************************************************************)
HTTP_OK == 200

\* response.raise_for_status(): an HTTPError for a 4xx or 5xx status
RaisesForStatus(status_code) == 400 <= status_code /\ status_code < 600

Returned(val) == [raised |-> FALSE, exc |-> "", val |-> val]

Raised(exc) == [raised |-> TRUE, exc |-> exc, val |-> None]

get_release_info_from_github(outcome) ==
    IF outcome.kind = "exception" THEN Returned(None)
    ELSE IF RaisesForStatus(outcome.status_code) THEN Returned(None)
    ELSE IF outcome.status_code # HTTP_OK THEN Returned(None)
    ELSE IF ~outcome.body.valid THEN Raised("JSONDecodeError")
    ELSE Returned(outcome.body.doc)

\* if account_username
Truthy(obj) == obj.id = "str" /\ obj.val # <<>>

get_fansly_account_for_token(outcome) ==
    IF outcome.kind = "exception" THEN Raised("RequestException")
    ELSE IF outcome.status_code = HTTP_OK
    THEN IF ~outcome.body.valid THEN Raised("JSONDecodeError")
         ELSE IF "response" \notin DOMAIN outcome.body.doc THEN Raised("KeyError")
         ELSE IF "account" \notin DOMAIN outcome.body.doc.response
              THEN Raised("KeyError")
         ELSE IF "username" \notin DOMAIN outcome.body.doc.response.account
              THEN Raised("KeyError")
         ELSE LET account_username == outcome.body.doc.response.account.username
              IN IF Truthy(account_username) THEN Returned(account_username)
                 ELSE Returned(None)
    ELSE Returned(None)

(***************************************************************************)
(* Input URLs: scheme://authority, then up to MaxSegs segments each        *)
(* preceded by a slash, an optional ?query and an optional #fragment.      *)
(***************************************************************************)
S_https == <<"h", "t", "t", "p", "s">>

S_HTTP == <<"H", "T", "T", "P">>

S_ws == <<"w", "s">>

S_host == <<"h">>

S_a == <<"a">>

S_b == <<"b">>

S_c_ext == <<"c", ".", "e", "x", "t">>

S_d_p == <<"d", ";", "p">>

S_q_xy == <<"x", "=", "1", "&", "y", "=", "2">>

S_q_slash == <<"u", "=", "b", "/", "c">>

S_f == <<"f">>

S_f_q == <<"f", "?", "g", "/", "i">>

Schemes == {S_https, S_HTTP, S_ws}

Authorities == {S_host}

Segments == {<<>>, S_a, S_b, S_c_ext, S_d_p}

\* an optional component is a sequence of zero or one strings
Opt(S) == {<<>>} \cup {<<x>> : x \in S}

Queries == Opt({<<>>, S_q_xy, S_q_slash})

Fragments == Opt({S_f, S_f_q})

SeqsUpTo(S, n) == UNION {[1..k -> S] : k \in 0..n}

UrlParts ==
    [scheme : Schemes, authority : Authorities, segs : SeqsUpTo(Segments, MaxSegs),
     query : Queries, fragment : Fragments]

RECURSIVE PathOf(_)
PathOf(segs) ==
    IF segs = <<>> THEN <<>>
    ELSE <<"/">> \o segs[1] \o PathOf(Tail(segs))

\* the URL text of the parts
UrlOf(p) ==
    p.scheme \o <<":", "/", "/">> \o p.authority \o PathOf(p.segs)
        \o (IF p.query = <<>> THEN <<>> ELSE <<"?">> \o p.query[1])
        \o (IF p.fragment = <<>> THEN <<>> ELSE <<"#">> \o p.fragment[1])

(***************************************************************************)
(* Inputs of get_qs_value: https://h/p, then "?" and up to MaxPairs pieces *)
(* joined by "&" (no "?" without pieces), then an optional #fragment.      *)
(***************************************************************************)
S_p == <<"p">>

S_x == <<"x">>

S_y == <<"y">>

S_x_1 == <<"x", "=", "1">>

S_x_2 == <<"x", "=", "2">>

S_x_blank == <<"x", "=">>

S_y_2 == <<"y", "=", "2">>

S_x_plus == <<"x", "=", "a", "+", "b">>

S_x_9 == <<"x", "=", "9">>

S_fallback == <<"f", "a", "l", "l", "b", "a", "c", "k">>

Pieces == {<<>>, S_x, S_x_1, S_x_2, S_x_blank, S_y_2, S_x_plus}

Keys == {S_x, S_y}

\* the default omitted (None), and two objects of the caller, one of them
\* equal in value to a value of the query string
Defaults == {None, [id |-> "default", val |-> S_fallback],
             [id |-> "default", val |-> <<"1">>]}

QsParts ==
    [pieces : SeqsUpTo(Pieces, MaxPairs), fragment : Opt({S_x_9})]

RECURSIVE Join(_, _)
Join(pieces, sep) ==
    IF Len(pieces) = 1 THEN pieces[1]
    ELSE pieces[1] \o sep \o Join(Tail(pieces), sep)

QsUrlOf(p) ==
    S_https \o <<":", "/", "/">> \o S_host \o <<"/">> \o S_p
        \o (IF p.pieces = <<>> THEN <<>> ELSE <<"?">> \o Join(p.pieces, <<"&">>))
        \o (IF p.fragment = <<>> THEN <<>> ELSE <<"#">> \o p.fragment[1])

(***************************************************************************)
(* Inputs of guess_user_agent: up to MaxCandidates candidates, shortened   *)
(* user-agent strings of the three OS families (with and without a         *)
(* version the branch's pattern matches) and one entry that is no str.     *)
(***************************************************************************)
S_FreeBSD == <<"F", "r", "e", "e", "B", "S", "D">>

S_Chrome == <<"C", "h", "r", "o", "m", "e">>

S_Firefox == <<"F", "i", "r", "e", "f", "o", "x">>

S_Chrome_114 == <<"C", "h", "r", "o", "m", "e", "/", "1", "1", "4">>

S_Edg_114 == <<" ", "E", "d", "g", "/", "1", "1", "4">>

S_Firefox_115 == <<"F", "i", "r", "e", "f", "o", "x", "/", "1", "1", "5">>

S_Macintosh_ == <<"M", "a", "c", "i", "n", "t", "o", "s", "h", ";", " ">>

S_X11_ == <<"X", "1", "1", ";", " ">>

StrObj(s) == [id |-> "str", val |-> s]

UA_win_chrome ==
    StrObj(<<"(">> \o S_Windows_NT_ \o <<"1", "0", ".", "0", ")", " ">> \o S_Chrome_114)

UA_win_edge ==
    StrObj(<<"(">> \o S_Windows_NT_ \o <<"1", "0", ".", "0", ")", " ">> \o S_Chrome_114
            \o S_Edg_114)

UA_win_bare == StrObj(<<"(">> \o S_Windows \o <<")", " ">> \o S_Chrome_114)

UA_mac_chrome ==
    StrObj(<<"(">> \o S_Macintosh_ \o S_Mac_OS_X_ \o <<"1", "0", "_", "1", "5", "_", "7">>
            \o <<")", " ">> \o S_Chrome_114)

UA_mac_firefox ==
    StrObj(<<"(">> \o S_Macintosh_ \o S_Mac_OS_X_ \o <<"1", "0", ".", "1", "5">>
            \o <<")", " ">> \o S_Firefox_115)

UA_linux_chrome ==
    StrObj(<<"(">> \o S_X11_ \o S_Linux_ \o <<"6", ".", "1", ")", " ">> \o S_Chrome_114)

UA_linux_x86 ==
    StrObj(<<"(">> \o S_X11_ \o S_Linux_ \o <<"x", "8", "6", "_", "6", "4", ")", " ">>
            \o S_Chrome_114)

Candidates ==
    {UA_win_chrome, UA_win_edge, UA_win_bare, UA_mac_chrome, UA_mac_firefox,
     UA_linux_chrome, UA_linux_x86, None}

Browsers == {S_Chrome, S_Firefox, S_Microsoft_Edge}

OsNames == HandledOs \cup {S_FreeBSD}

\* a default of its own, and one equal in value to a candidate
DefaultUas == {StrObj(<<"M", "o", "z", "i", "l", "l", "a">>), UA_win_chrome}

(***************************************************************************)
(* Outcomes of the GET request of a fetcher                                *)
(***************************************************************************)
StatusCodes == {200, 204, 304, 401, 404, 500}

NotJson == [valid |-> FALSE, doc |-> <<>>]

Json(doc) == [valid |-> TRUE, doc |-> doc]

Outcomes(bodies) ==
    {[kind |-> "exception", status_code |-> 0, body |-> NotJson]}
        \cup [kind : {"response"}, status_code : StatusCodes, body : bodies]

ReleaseBodies ==
    {NotJson, Json([tag_name |-> "v0.7.0", prerelease |-> FALSE]),
     Json([tag_name |-> "v0.8.0", prerelease |-> TRUE])}

S_bob == <<"b", "o", "b">>

AccountBodies ==
    {NotJson,
     Json([success |-> FALSE]),
     Json([success |-> TRUE, response |-> [total |-> 0]]),
     Json([success |-> TRUE, response |-> [account |-> [id |-> "1"]]]),
     Json([success |-> TRUE, response |-> [account |-> [username |-> None]]]),
     Json([success |-> TRUE, response |-> [account |-> [username |-> StrObj(<<>>)]]]),
     Json([success |-> TRUE, response |-> [account |-> [username |-> StrObj(S_bob)]]])}

Versions == {"0.7.0", "0.8.0"}

AuthTokens == {"token-a", "token-b"}

NoCall == [op |-> "none"]

Init ==
    /\ pc = "idle"
    /\ call = NoCall
    /\ ret = NoCall
    /\ log = <<>>

SplitUrl ==
    /\ pc = "idle"
    /\ \E p \in UrlParts :
        /\ call' = [op |-> "split_url", parts |-> p, url |-> UrlOf(p)]
        /\ ret' = split_url(UrlOf(p))
    /\ pc' = "done"
    /\ UNCHANGED log

GetFileNameFromUrl ==
    /\ pc = "idle"
    /\ \E p \in UrlParts :
        /\ call' = [op |-> "get_file_name_from_url", parts |-> p, url |-> UrlOf(p)]
        /\ ret' = [last_part |-> get_file_name_from_url(UrlOf(p))]
    /\ pc' = "done"
    /\ UNCHANGED log

GetQsValue ==
    /\ pc = "idle"
    /\ \E p \in QsParts, key \in Keys, default \in Defaults :
        /\ call' = [op |-> "get_qs_value", parts |-> p, url |-> QsUrlOf(p),
                    key |-> key, default |-> default]
        /\ ret' = get_qs_value(QsUrlOf(p), key, default)
    /\ pc' = "done"
    /\ UNCHANGED log

GuessUserAgent ==
    /\ pc = "idle"
    /\ \E user_agents \in SeqsUpTo(Candidates, MaxCandidates),
          based_on_browser \in Browsers, default_ua \in DefaultUas,
          os_name \in OsNames :
        LET out == guess_user_agent(user_agents, based_on_browser, default_ua, os_name)
        IN /\ call' = [op |-> "guess_user_agent", user_agents |-> user_agents,
                       based_on_browser |-> based_on_browser,
                       default_ua |-> default_ua, os_name |-> os_name]
           /\ ret' = [raised |-> out.raised, val |-> out.val, idx |-> out.idx]
           /\ log' = out.log
    /\ pc' = "done"

GetReleaseInfoFromGithub ==
    /\ pc = "idle"
    /\ \E current_program_version \in Versions, outcome \in Outcomes(ReleaseBodies) :
        /\ call' = [op |-> "get_release_info_from_github",
                    current_program_version |-> current_program_version,
                    outcome |-> outcome]
        /\ ret' = get_release_info_from_github(outcome)
    /\ pc' = "done"
    /\ UNCHANGED log

GetFanslyAccountForToken ==
    /\ pc = "idle"
    /\ \E auth_token \in AuthTokens, outcome \in Outcomes(AccountBodies) :
        /\ call' = [op |-> "get_fansly_account_for_token",
                    auth_token |-> auth_token, outcome |-> outcome]
        /\ ret' = get_fansly_account_for_token(outcome)
    /\ pc' = "done"
    /\ UNCHANGED log

\* the caller takes the result and goes on to its next call
Continue ==
    /\ pc = "done"
    /\ pc' = "idle"
    /\ call' = NoCall
    /\ ret' = NoCall
    /\ log' = <<>>

Next ==
    \/ SplitUrl
    \/ GetFileNameFromUrl
    \/ GetQsValue
    \/ GuessUserAgent
    \/ GetReleaseInfoFromGithub
    \/ GetFanslyAccountForToken
    \/ Continue

Spec == Init /\ [][Next]_vars

(***************************************************************************)
(* Properties of split_url                                                 *)
(***************************************************************************)
SplitDone == pc = "done" /\ call.op = "split_url"

\* the lower-cased scheme, "://" and the authority
Origin(p) == Lower(p.scheme) \o <<":", "/", "/">> \o p.authority

Front(s) == SubSeq(s, 1, Len(s) - 1)

Last(s) == s[Len(s)]

\* the segments with the ;parameters of the last one cut off
WithoutParams(segs) ==
    [i \in 1..Len(segs) |->
        IF i = Len(segs) THEN SplitOnce(segs[i], <<";">>)[1] ELSE segs[i]]

HasParams(p) ==
    /\ p.segs # <<>>
    /\ Contains(<<";">>, Last(p.segs))
    /\ Lower(p.scheme) \in uses_params

\* the URL with the text before its first colon lower-cased
SchemeNormalized(url) ==
    LET i == Find(url, <<":">>, 1)
    IN Lower(Upto(url, i)) \o From(url, i)

EndsWith(s, t) == Len(t) <= Len(s) /\ From(s, Len(s) - Len(t) + 1) = t

\* scheme, "://", authority and path only
IsAbsoluteUrl(s) ==
    LET i == Find(s, <<":", "/", "/">>, 1)
    IN /\ i > 1
       /\ IsAlpha(s[1])
       /\ \A k \in 1..(i - 1) : s[k] \in scheme_chars
       /\ ~Contains(<<"?">>, s)
       /\ ~Contains(<<"#">>, s)

\* C1 as stated: for scheme://authority/path[?query][#fragment], file_url is
\* scheme://authority/path of the input (the scheme read as urlparse reports
\* it, lower-cased) and base_url is file_url without its last segment and the
\* slash before it.
C1_AsStated ==
    (SplitDone /\ call.parts.segs # <<>>) =>
        /\ ret.file_url = Origin(call.parts) \o PathOf(call.parts.segs)
        /\ ret.base_url = Origin(call.parts) \o PathOf(Front(call.parts.segs))

\* C1 amended: file_url is the lower-cased scheme, "://", the authority and
\* the path, with query, fragment and (for a scheme that carries parameters)
\* the ;parameters of the last segment dropped; base_url is file_url without
\* its last segment and the slash before it.
C1_FileAndBaseUrl ==
    (SplitDone /\ call.parts.segs # <<>>) =>
        LET p == call.parts
            segs == IF HasParams(p) THEN WithoutParams(p.segs) ELSE p.segs
        IN /\ ret.file_url = Origin(p) \o PathOf(segs)
           /\ ret.base_url = Origin(p) \o PathOf(Front(segs))
           /\ ret.file_url = ret.base_url \o <<"/">> \o Last(segs)

\* C1, reached: https://h/a/b/c.ext?x=1&y=2 was split into https://h/a/b and
\* https://h/a/b/c.ext
C1_Witness ==
    /\ SplitDone
    /\ call.url = S_https \o <<":", "/", "/">> \o S_host
                    \o PathOf(<<S_a, S_b, S_c_ext>>) \o <<"?">> \o S_q_xy
    /\ ret.base_url = S_https \o <<":", "/", "/">> \o S_host \o PathOf(<<S_a, S_b>>)
    /\ ret.file_url = S_https \o <<":", "/", "/">> \o S_host
                        \o PathOf(<<S_a, S_b, S_c_ext>>)

\* C2 as stated: for every accepted URL, the path empty included, file_url
\* ends with get_file_name_from_url(url), file_url = base_url + "/" + that
\* segment, and both are absolute URLs of scheme, "://", authority and path.
C2_AsStated ==
    SplitDone =>
        LET segment == get_file_name_from_url(call.url)
        IN /\ EndsWith(ret.file_url, segment)
           /\ ret.file_url = ret.base_url \o <<"/">> \o segment
           /\ IsAbsoluteUrl(ret.base_url)
           /\ IsAbsoluteUrl(ret.file_url)

\* the conclusion of C3 about the call in the current state
C3_Conclusion ==
    /\ ret.file_url = SchemeNormalized(call.url)
    /\ Len(ret.base_url) < Len(ret.file_url)
    /\ Upto(ret.file_url, Len(ret.base_url) + 1) = ret.base_url
    /\ ret.file_url[Len(ret.base_url) + 1] = "/"
    /\ ~Contains(<<"/">>, From(ret.file_url, Len(ret.base_url) + 2))

\* C3 as stated: for a URL with a non-empty path and no query string,
\* file_url is the URL (scheme lower-cased) and base_url is a strict prefix
\* of it ending one segment earlier.
C3_AsStated ==
    (SplitDone /\ call.parts.segs # <<>> /\ call.parts.query = <<>>) => C3_Conclusion

\* C3 amended: the same for a URL with a non-empty path, no query string, no
\* fragment and no ";" in its last path segment.
C3_UrlIsFileUrl ==
    (/\ SplitDone
     /\ call.parts.segs # <<>>
     /\ call.parts.query = <<>>
     /\ call.parts.fragment = <<>>
     /\ ~Contains(<<";">>, Last(call.parts.segs))) => C3_Conclusion

\* C3, reached: HTTP://h/a/b was split into http://h/a and http://h/a/b
C3_Witness ==
    /\ SplitDone
    /\ call.url = S_HTTP \o <<":", "/", "/">> \o S_host \o PathOf(<<S_a, S_b>>)
    /\ ret.file_url = Lower(S_HTTP) \o <<":", "/", "/">> \o S_host \o PathOf(<<S_a, S_b>>)
    /\ ret.base_url = Lower(S_HTTP) \o <<":", "/", "/">> \o S_host \o PathOf(<<S_a>>)

(***************************************************************************)
(* Properties of get_qs_value                                              *)
(***************************************************************************)
QsDone == pc = "done" /\ call.op = "get_qs_value"

\* the text of a piece before its first "=", and after it
PieceName(piece) == SplitOnce(piece, <<"=">>)[1]

PieceValue(piece) ==
    LET nv == SplitOnce(piece, <<"=">>) IN IF Len(nv) = 2 THEN nv[2] ELSE <<>>

\* the positions of the pieces of the call's query string that name the key
Occurrences ==
    {i \in DOMAIN call.parts.pieces : PieceName(call.parts.pieces[i]) = call.key}

\* C4: when the key does not occur in the query string the result is the
\* very object passed as default (None when omitted); when the key occurs
\* one or more times, each time with a value, the result is the value of its
\* first occurrence, a string of the query string and not the default.
C4_DefaultOrFirstValue ==
    QsDone =>
        /\ Occurrences = {} => ret = call.default
        /\ (/\ Occurrences # {}
            /\ \A i \in Occurrences : PieceValue(call.parts.pieces[i]) # <<>>) =>
                /\ ret.id = "str"
                /\ ret.val = Replace(PieceValue(call.parts.pieces[Min(Occurrences)]),
                                     "+", " ")

\* C4, reached: https://h/p?x=1&x=2 asked for x with the default object "1" gave the
\* string "1" of the query string
C4_Witness ==
    /\ QsDone
    /\ call.parts.pieces = <<S_x_1, S_x_2>>
    /\ call.key = S_x
    /\ call.default = [id |-> "default", val |-> <<"1">>]
    /\ ret = [id |-> "str", val |-> <<"1">>]

\* C5 as stated: a key present only with an empty value gives None even
\* with a non-None default, and an absent key gives the default.
C5_AsStated ==
    QsDone =>
        /\ Occurrences = {} => ret = call.default
        /\ (/\ Occurrences # {}
            /\ \A i \in Occurrences : call.parts.pieces[i] = call.key \o <<"=">>) =>
                ret = None

(***************************************************************************)
(* Properties of guess_user_agent                                          *)
(***************************************************************************)
UaDone == pc = "done" /\ call.op = "guess_user_agent"

\* the browser token looked for: Edg for Microsoft Edge, else the name given
Token ==
    IF call.based_on_browser = S_Microsoft_Edge THEN S_Edg ELSE call.based_on_browser

\* the OS version pattern of the call's OS matches in the candidate
PatternMatches(c) ==
    CASE call.os_name = S_Windows ->
            ReSearch(S_Windows_NT_, Digits \cup {"."}, c.val).matched
      [] call.os_name = S_Darwin ->
            ReSearch(S_Mac_OS_X_, Digits \cup {"_", "."}, c.val).matched
      [] call.os_name = S_Linux ->
            ReSearch(S_Linux_, Digits \cup {"."}, c.val).matched

\* a str with the browser token, the OS family marker and a well-formed
\* embedded OS version
WellFormedFor(c) ==
    /\ c.id = "str"
    /\ Contains(Token, c.val)
    /\ Contains(OsMarker(call.os_name), c.val)
    /\ PatternMatches(c)

\* a str that meets the three conditions of the loop
Satisfies(c) ==
    /\ c.id = "str"
    /\ Contains(Token, c.val)
    /\ Contains(OsMarker(call.os_name), c.val)
    /\ VersionCheck(call.os_name, c.val)

\* C6 as stated: on Windows, macOS and Linux, a list (of strings) with
\* exactly one entry that has the browser token, the OS family marker and a
\* version matched by the OS's pattern yields that entry.
C6_AsStated ==
    (/\ UaDone
     /\ call.os_name \in HandledOs
     /\ \A i \in DOMAIN call.user_agents : call.user_agents[i].id = "str") =>
        \A i \in DOMAIN call.user_agents :
            (/\ WellFormedFor(call.user_agents[i])
             /\ \A j \in DOMAIN call.user_agents :
                    WellFormedFor(call.user_agents[j]) => j = i) =>
                /\ ret.idx = i
                /\ ret.val = call.user_agents[i]

IsWarning(m) ==
    /\ m.level = "warning"
    /\ m.text = "Missing user-agent"
    /\ m.browser = Token
    /\ m.os = call.os_name

\* an error occurs: on a handled OS the loop comes to an entry that is no str
ErrorOccurs ==
    /\ call.os_name \in HandledOs
    /\ \E j \in DOMAIN call.user_agents :
        /\ call.user_agents[j].id # "str"
        /\ \A k \in 1..(j - 1) : ~Satisfies(call.user_agents[k])

C10_FirstMatchWins ==
    (UaDone /\ call.os_name \in HandledOs) =>
        /\ ret.idx # 0 =>
            /\ Satisfies(call.user_agents[ret.idx])
            /\ \A j \in 1..(ret.idx - 1) : ~Satisfies(call.user_agents[j])
        /\ \A i \in DOMAIN call.user_agents :
            (/\ Satisfies(call.user_agents[i])
             /\ \A j \in 1..(i - 1) :
                    call.user_agents[j].id = "str" /\ ~Satisfies(call.user_agents[j])) =>
                ret.idx = i /\ ret.val = call.user_agents[i]

\* C10, reached: on Windows, asked for Chrome, a list of two satisfying candidates gave
\* the first
C10_Witness ==
    /\ UaDone
    /\ call.os_name = S_Windows
    /\ call.based_on_browser = S_Chrome
    /\ call.user_agents = <<UA_win_edge, UA_win_chrome>>
    /\ Satisfies(call.user_agents[2])
    /\ ret.idx = 1
    /\ ret.val = UA_win_edge

(***************************************************************************)
(* Properties of the fetchers                                              *)
(***************************************************************************)
ReleaseDone == pc = "done" /\ call.op = "get_release_info_from_github"

AccountDone == pc = "done" /\ call.op = "get_fansly_account_for_token"

Is2xx(status_code) == 200 <= status_code /\ status_code < 300

\* C8 as stated: whatever the GET request does (an exception, any status,
\* any body) the call returns normally: None when the request raised or the
\* status is not 2xx, the decoded JSON body on a 200 with a JSON body.
C8_AsStated ==
    ReleaseDone =>
        /\ ~ret.raised
        /\ (\/ call.outcome.kind = "exception"
            \/ ~Is2xx(call.outcome.status_code)) => ret.val = None
        /\ (/\ call.outcome.kind = "response"
            /\ call.outcome.status_code = 200
            /\ call.outcome.body.valid) => ret.val = call.outcome.body.doc

\* the 200 response carries a JSON document with response.account.username
HasUsername ==
    /\ call.outcome.body.valid
    /\ "response" \in DOMAIN call.outcome.body.doc
    /\ "account" \in DOMAIN call.outcome.body.doc.response
    /\ "username" \in DOMAIN call.outcome.body.doc.response.account

\* C9 as stated: the username is returned exactly on a 200 with a non-empty
\* username; None is returned, without raising, on another status, on a 200
\* JSON body without the username field and on an empty username; only an
\* exception of the HTTP transport leaves the call.
C9_AsStated ==
    AccountDone =>
        LET o == call.outcome
            named == /\ o.kind = "response"
                     /\ o.status_code = 200
                     /\ HasUsername
                     /\ Truthy(o.body.doc.response.account.username)
        IN /\ named => ret = Returned(o.body.doc.response.account.username)
           /\ (o.kind = "response" /\ ~named /\ o.body.valid) => ret = Returned(None)
           /\ ret.raised => (o.kind = "exception" \/ ~o.body.valid)

============================================================================
